---------------------------- MODULE Spec2Model ----------------------------
(***************************************************************************)
(* A model of the spiral animation: src/spirals.js (the four-spiral        *)
(* controller with branching) and src/unnamed/part_000 (the single-spiral  *)
(* controller).                                                            *)
(*                                                                         *)
(* Numbers.  JavaScript numbers are IEEE doubles; here they are fixed      *)
(* point integers:                                                         *)
(*   - coordinates (root, tip, branchRoot[0..1]) in 1/Milli pixel,         *)
(*   - speed and sizeMult in 1/Micro,                                      *)
(*   - angles as [half, q] = half*PI + q*0.025 rad (0.025 is half of the   *)
(*     angular acceleration magnitude .05, so every direction the program  *)
(*     can reach is exactly of this form), angularAccel in units of 0.025  *)
(*     rad (so +-2),                                                       *)
(*   - Math.cos / Math.sin by table, in 1/Milli.                           *)
(* null is Null (the empty tuple); undefined is a tagged record.           *)
(***************************************************************************)
EXTENDS Integers, Sequences, FiniteSets, TLC

VARIABLES
  canvas,          \* the surface: [width, height]
  imageData,       \* this.imageData.data: [length, nz], nz its nonzero bytes
  shown,           \* what putImageData last committed to the surface
  spirals,         \* this.spirals (spirals.js)
  spiral,          \* this.spiral (part_000), Null in the four-spiral controller
  timeouts,        \* how many of the constructor's four setTimeout callbacks ran
  refreshInterval, \* this.refreshInterval
  intervals,       \* the scheduler's active setInterval timers: {[id, delay]}
  handles,         \* how many interval handles the scheduler has handed out
  fps,             \* the constructor's local fps after defaulting
  mspf,            \* this.mspf
  frames,          \* how many times update() ran
  rng,             \* the random source (Math.random)
  popped,          \* the pixels absorbUpdates popped during the last update()
  setPixelCalls,   \* the (x, y) setPixel was invoked with during the last update()
  spawned,         \* the branches pushed during the last update()
  seg              \* the segment handed to updateLine on its own

vars ==
  <<canvas, imageData, shown, spirals, spiral, timeouts, refreshInterval,
    intervals, handles, fps, mspf, frames, rng, popped, setPixelCalls,
    spawned, seg>>

---------------------------------------------------------------------------
(* Bounds of the model. *)

\* At most this many Spirals exist (constructor timeouts and branches).
MaxSpirals == 2
\* At most this many start() calls.
MaxStarts == 2
\* update() runs at most this often: under Spec, SpecRun, SpecLife, SpecSingle.
MaxFrames == 3
RunFrames == 30
LifeFrames == 410
SingleFrames == 40
\* updateLine on its own: endpoints on whole pixels 0..MaxCoord.
MaxCoord == 10

---------------------------------------------------------------------------
(* Number representation. *)

Milli == 1000
Micro == 1000000
Null == <<>>
Undefined == [tag |-> "undefined", id |-> 0]

Abs(x) == IF x < 0 THEN 0 - x ELSE x

\* A faulty rounding: truncation (Math.floor) in place of Math.round.
RoundDown(v) == v \div Milli

\* Math.round: to the nearest integer, halves up.  v in 1/Milli.
Round(v) == (v + Milli \div 2) \div Milli

\* cos(q * 0.025), q = 0 .. 800, in 1/Milli.
CosTab ==
  <<
     1000, 1000, 999, 997, 995, 992, 989, 985, 980, 975, 969, 962, 955, 948, 939, 931,
     921, 911, 900, 889, 878, 865, 853, 839, 825, 811, 796, 781, 765, 748, 732, 714,
     697, 679, 660, 641, 622, 602, 582, 561, 540, 519, 498, 476, 454, 431, 408, 386,
     362, 339, 315, 292, 267, 243, 219, 195, 170, 145, 121, 96, 71, 46, 21, -4,
     -29, -54, -79, -104, -129, -154, -178, -203, -227, -251, -276, -300, -323, -347, -370, -393,
     -416, -439, -461, -483, -505, -526, -547, -568, -589, -609, -628, -647, -666, -685, -703, -720,
     -737, -754, -770, -786, -801, -816, -830, -844, -857, -870, -882, -893, -904, -914, -924, -934,
     -942, -950, -958, -965, -971, -977, -982, -986, -990, -993, -996, -998, -999, -1000, -1000, -999,
     -998, -997, -994, -991, -987, -983, -978, -973, -967, -960, -953, -945, -936, -927, -918, -908,
     -897, -885, -874, -861, -848, -835, -821, -806, -791, -775, -759, -743, -726, -709, -691, -672,
     -654, -635, -615, -595, -575, -554, -533, -512, -490, -468, -446, -424, -401, -378, -355, -331,
     -307, -283, -259, -235, -211, -186, -162, -137, -112, -87, -62, -37, -12, 13, 38, 63,
     87, 112, 137, 162, 187, 211, 235, 260, 284, 308, 331, 355, 378, 401, 424, 446,
     469, 490, 512, 533, 554, 575, 595, 615, 635, 654, 673, 691, 709, 726, 743, 760,
     776, 791, 806, 821, 835, 848, 861, 874, 886, 897, 908, 918, 927, 937, 945, 953,
     960, 967, 973, 978, 983, 988, 991, 994, 997, 998, 999, 1000, 1000, 999, 998, 996,
     993, 990, 986, 982, 977, 971, 965, 958, 950, 942, 933, 924, 914, 904, 893, 881,
     869, 857, 844, 830, 816, 801, 786, 770, 754, 737, 720, 703, 685, 666, 647, 628,
     608, 588, 568, 547, 526, 505, 483, 461, 439, 416, 393, 370, 347, 323, 299, 275,
     251, 227, 203, 178, 153, 129, 104, 79, 54, 29, 4, -21, -46, -71, -96, -121,
     -146, -170, -195, -219, -244, -268, -292, -316, -339, -363, -386, -409, -431, -454, -476, -498,
     -519, -540, -561, -582, -602, -622, -641, -660, -679, -697, -715, -732, -749, -765, -781, -796,
     -811, -825, -839, -853, -865, -878, -889, -901, -911, -921, -931, -939, -948, -955, -962, -969,
     -975, -980, -985, -989, -992, -995, -997, -999, -1000, -1000, -1000, -999, -997, -995, -992, -989,
     -985, -980, -975, -969, -962, -955, -948, -939, -930, -921, -911, -900, -889, -877, -865, -852,
     -839, -825, -811, -796, -781, -765, -748, -732, -714, -697, -678, -660, -641, -621, -602, -582,
     -561, -540, -519, -497, -476, -453, -431, -408, -385, -362, -339, -315, -291, -267, -243, -219,
     -194, -170, -145, -120, -95, -71, -46, -21, 4, 29, 54, 79, 104, 129, 154, 178,
     203, 227, 252, 276, 300, 323, 347, 370, 393, 416, 439, 461, 483, 505, 526, 548,
     568, 589, 609, 628, 648, 666, 685, 703, 720, 738, 754, 770, 786, 801, 816, 830,
     844, 857, 870, 882, 893, 904, 915, 924, 934, 942, 950, 958, 965, 971, 977, 982,
     986, 990, 993, 996, 998, 999, 1000, 1000, 999, 998, 997, 994, 991, 987, 983, 978,
     973, 967, 960, 953, 945, 936, 927, 918, 907, 897, 885, 873, 861, 848, 834, 820,
     806, 791, 775, 759, 743, 726, 708, 690, 672, 653, 634, 615, 595, 575, 554, 533,
     512, 490, 468, 446, 423, 401, 378, 354, 331, 307, 283, 259, 235, 211, 186, 161,
     137, 112, 87, 62, 37, 12, -13, -38, -63, -88, -113, -137, -162, -187, -211, -236,
     -260, -284, -308, -331, -355, -378, -401, -424, -446, -469, -491, -512, -534, -555, -575, -595,
     -615, -635, -654, -673, -691, -709, -726, -743, -760, -776, -791, -806, -821, -835, -848, -861,
     -874, -886, -897, -908, -918, -928, -937, -945, -953, -960, -967, -973, -978, -983, -988, -991,
     -994, -997, -998, -999, -1000, -1000, -999, -998, -996, -993, -990, -986, -982, -977, -971, -965,
     -958, -950, -942, -933, -924, -914, -904, -893, -881, -869, -857, -843, -830, -816, -801, -786,
     -770, -754, -737, -720, -702, -684, -666, -647, -628, -608, -588, -568, -547, -526, -504, -483,
     -461, -438, -416, -393, -370, -346, -323, -299, -275, -251, -227, -202, -178, -153, -128, -104,
     -79, -54, -29, -4, 21, 46, 71, 96, 121, 146, 170, 195, 219, 244, 268, 292,
     316, 339, 363, 386, 409, 432, 454, 476, 498, 519, 541, 562, 582, 602, 622, 641,
     660, 679, 697, 715, 732, 749, 765, 781, 796, 811, 826, 839, 853, 866, 878, 889,
     901, 911, 921, 931, 940, 948, 955, 963, 969, 975, 980, 985, 989, 992, 995, 997,
     999, 1000, 1000, 1000, 999, 997, 995, 992, 989, 985, 980, 975, 969, 962, 955, 948,
     939, 930, 921, 911, 900, 889, 877, 865, 852, 839, 825, 811, 796, 780, 765, 748,
     731, 714, 696, 678, 660, 641, 621, 601, 581, 561, 540, 519, 497, 475, 453, 431,
     408
  >>

\* sin(q * 0.025), q = 0 .. 800, in 1/Milli.
SinTab ==
  <<
     0, 25, 50, 75, 100, 125, 149, 174, 199, 223, 247, 272, 296, 319, 343, 366,
     389, 412, 435, 457, 479, 501, 523, 544, 565, 585, 605, 625, 644, 663, 682, 700,
     717, 735, 751, 768, 783, 799, 813, 828, 841, 855, 867, 880, 891, 902, 913, 923,
     932, 941, 949, 957, 964, 970, 976, 981, 985, 989, 993, 995, 997, 999, 1000, 1000,
     1000, 999, 997, 995, 992, 988, 984, 979, 974, 968, 961, 954, 946, 938, 929, 919,
     909, 899, 887, 876, 863, 850, 837, 823, 808, 794, 778, 762, 746, 729, 711, 694,
     675, 657, 638, 618, 598, 578, 558, 537, 516, 494, 472, 450, 427, 405, 382, 358,
     335, 311, 287, 263, 239, 215, 190, 166, 141, 116, 91, 67, 42, 17, -8, -33,
     -58, -83, -108, -133, -158, -182, -207, -231, -256, -280, -304, -327, -351, -374, -397, -420,
     -443, -465, -487, -508, -530, -551, -572, -592, -612, -631, -651, -669, -688, -706, -723, -740,
     -757, -773, -789, -804, -818, -832, -846, -859, -872, -884, -895, -906, -916, -926, -935, -944,
     -952, -959, -966, -972, -978, -982, -987, -991, -994, -996, -998, -999, -1000, -1000, -999, -998,
     -996, -994, -991, -987, -982, -977, -972, -966, -959, -952, -944, -935, -926, -916, -906, -895,
     -883, -871, -859, -846, -832, -818, -804, -788, -773, -757, -740, -723, -706, -688, -669, -650,
     -631, -612, -592, -571, -551, -530, -508, -487, -465, -442, -420, -397, -374, -351, -327, -303,
     -279, -255, -231, -207, -182, -158, -133, -108, -83, -58, -33, -8, 17, 42, 67, 92,
     117, 141, 166, 191, 215, 239, 264, 288, 312, 335, 359, 382, 405, 428, 450, 472,
     494, 516, 537, 558, 578, 599, 618, 638, 657, 676, 694, 712, 729, 746, 762, 778,
     794, 809, 823, 837, 850, 863, 876, 887, 899, 909, 920, 929, 938, 946, 954, 961,
     968, 974, 979, 984, 988, 992, 995, 997, 999, 1000, 1000, 1000, 999, 997, 995, 993,
     989, 985, 981, 976, 970, 963, 957, 949, 941, 932, 923, 913, 902, 891, 879, 867,
     855, 841, 828, 813, 798, 783, 767, 751, 734, 717, 700, 681, 663, 644, 625, 605,
     585, 564, 544, 522, 501, 479, 457, 435, 412, 389, 366, 343, 319, 295, 271, 247,
     223, 198, 174, 149, 124, 100, 75, 50, 25, 0, -25, -50, -75, -100, -125, -150,
     -174, -199, -223, -248, -272, -296, -320, -343, -366, -390, -413, -435, -458, -480, -501, -523,
     -544, -565, -585, -605, -625, -644, -663, -682, -700, -718, -735, -751, -768, -783, -799, -814,
     -828, -842, -855, -868, -880, -891, -902, -913, -923, -932, -941, -949, -957, -964, -970, -976,
     -981, -985, -989, -993, -995, -998, -999, -1000, -1000, -1000, -999, -997, -995, -992, -988, -984,
     -979, -974, -968, -961, -954, -946, -938, -929, -919, -909, -899, -887, -875, -863, -850, -837,
     -823, -808, -793, -778, -762, -746, -729, -711, -694, -675, -657, -638, -618, -598, -578, -557,
     -537, -515, -494, -472, -450, -427, -404, -381, -358, -335, -311, -287, -263, -239, -215, -190,
     -166, -141, -116, -91, -66, -41, -16, 9, 34, 59, 84, 108, 133, 158, 183, 207,
     232, 256, 280, 304, 327, 351, 374, 397, 420, 443, 465, 487, 509, 530, 551, 572,
     592, 612, 632, 651, 670, 688, 706, 723, 740, 757, 773, 789, 804, 818, 833, 846,
     859, 872, 884, 895, 906, 916, 926, 935, 944, 952, 959, 966, 972, 978, 983, 987,
     991, 994, 996, 998, 999, 1000, 1000, 999, 998, 996, 994, 991, 987, 982, 977, 972,
     966, 959, 951, 943, 935, 926, 916, 906, 895, 883, 871, 859, 846, 832, 818, 803,
     788, 773, 757, 740, 723, 705, 687, 669, 650, 631, 612, 592, 571, 551, 529, 508,
     486, 464, 442, 420, 397, 374, 350, 327, 303, 279, 255, 231, 206, 182, 157, 133,
     108, 83, 58, 33, 8, -17, -42, -67, -92, -117, -142, -166, -191, -215, -240, -264,
     -288, -312, -335, -359, -382, -405, -428, -450, -472, -494, -516, -537, -558, -579, -599, -619,
     -638, -657, -676, -694, -712, -729, -746, -762, -778, -794, -809, -823, -837, -851, -863, -876,
     -888, -899, -909, -920, -929, -938, -946, -954, -961, -968, -974, -979, -984, -988, -992, -995,
     -997, -999, -1000, -1000, -1000, -999, -997, -995, -993, -989, -985, -981, -976, -970, -963, -956,
     -949, -941, -932, -923, -913, -902, -891, -879, -867, -854, -841, -827, -813, -798, -783, -767,
     -751, -734, -717, -699, -681, -663, -644, -625, -605, -585, -564, -543, -522, -501, -479, -457,
     -435, -412, -389, -366, -342, -319, -295, -271, -247, -223, -198, -174, -149, -124, -99, -74,
     -50, -25, 0, 25, 50, 75, 100, 125, 150, 175, 199, 224, 248, 272, 296, 320,
     343, 367, 390, 413, 435, 458, 480, 502, 523, 544, 565, 585, 606, 625, 645, 663,
     682, 700, 718, 735, 752, 768, 784, 799, 814, 828, 842, 855, 868, 880, 891, 902,
     913
  >>

\* Math.cos(dir), in 1/Milli.
Cos(dir) ==
  LET c == CosTab[Abs(dir.q) + 1]
  IN IF dir.half = 1 THEN 0 - c ELSE c

\* Math.sin(dir), in 1/Milli.
Sin(dir) ==
  LET s == IF dir.q < 0 THEN 0 - SinTab[Abs(dir.q) + 1] ELSE SinTab[Abs(dir.q) + 1]
  IN IF dir.half = 1 THEN 0 - s ELSE s

\* dir + a, a in units of 0.025 rad.
DirAdd(dir, a) == [dir EXCEPT !.q = @ + a]

\* speed * cos or sin: speed in 1/Micro, c in 1/Milli, the product in 1/Milli.
Times(speed, c) == ((speed \div Milli) * c + Milli \div 2) \div Milli

---------------------------------------------------------------------------
(* Program constants. *)

\* fps defaults to 60.
DefaultFps == 60
\* if (this.timeSinceBranch > 25)
BranchThreshold == 25
\* x * .993, in 1/1000.
SpeedKeep == 993
\* .0016 * sizeMult, in 1/10000.
SpeedLoss == 16
\* this.speed = 3 * this.sizeMult
SpeedInit == 3
\* startAccel * .05, in units of 0.025 rad.
AccelUnit == 2
\* xstep = .5 and ystep = .5, in 1/Milli.
HalfStep == 500
\* alpha defaults to 255.
Alpha == 255
\* part_000: this.speed = 5, in 1/Micro.
SingleSpeed == 5000000
\* part_000: this.angularAccel = -.05: one AccelUnit, clockwise on screen.
SingleAccel == -2

\* What randomSize() (Math.random() * .04 + .3, in 1/Micro) and randomColor()
\* give a new Spiral is drawn from these.
Draws ==
  {[size |-> 300000, color |-> <<255, 0, 0>>],
   [size |-> 320000, color |-> <<0, 128, 255>>]}
\* The fps arguments a controller is constructed with: none, or 30.
FpsArgs == {<<>>, <<30>>}

---------------------------------------------------------------------------
(* SpiralControl's static helpers. *)

sign(x) == IF x > 0 THEN 1 ELSE IF x < 0 THEN -1 ELSE 0

\* A faulty range test: the upper end taken as inclusive.
inRangeInclusive(num, end1, end2) == end1 <= num /\ num <= end2

inRange(num, end1, end2) == end1 <= num /\ num < end2

inXRange(cv, num) == inRange(num, 0, cv.width)

inYRange(cv, num) == inRange(num, 0, cv.height)

inCanvas(cv, x, y) == inXRange(cv, x) /\ inYRange(cv, y)

\* The Uint8ClampedArray of an ImageData is kept as its length and the
\* function nz from the offsets of its nonzero bytes to their values.
\* data[idx]:
Byte(data, idx) == IF idx \in DOMAIN data.nz THEN data.nz[idx] ELSE 0

\* data[idx] = v: a store at an index outside the array is ignored.
Store(data, idx, v) ==
  IF idx \in 0 .. (data.length - 1)
  THEN [data EXCEPT !.nz = [j \in IF v = 0
                                  THEN DOMAIN data.nz \ {idx}
                                  ELSE DOMAIN data.nz \cup {idx} |->
                              IF j = idx THEN v ELSE data.nz[j]]]
  ELSE data

setPixel(cv, data, x, y, r, g, b) ==
  LET position == cv.width * y + x
  IN Store(Store(Store(Store(data, position * 4, r),
                       position * 4 + 1, g),
                 position * 4 + 2, b),
           position * 4 + 3, Alpha)

\* createImageData(width, height): zero-initialized.
createImageData(cv) ==
  [length |-> cv.width * cv.height * 4, nz |-> [j \in {} |-> 0]]

---------------------------------------------------------------------------
(* Spiral (spirals.js). *)

\* new Spiral(...): no caller passes newColor, so color is randomColor()'s value.
\* advances, recordings and startDir are history: how often update() advanced
\* this Spiral, how often it assigned branchRoot, and the direction it began with.
Spiral(startX, startY, startDir, startAccel, startSizeMult, color) ==
  [root |-> <<startX, startY>>,
   color |-> color,
   dir |-> startDir,
   angularAccel |-> startAccel * AccelUnit,
   timeSinceBranch |-> 0,
   sizeMult |-> startSizeMult,
   speed |-> SpeedInit * startSizeMult,
   tip |-> <<startX, startY>>,
   branchRoot |-> Null,
   updated |-> <<>>,
   stopped |-> FALSE,
   advances |-> 0,
   recordings |-> 0,
   startDir |-> startDir]

\* A faulty decay: the linear loss left out.
updateSpeedNoLoss(x, sizeMult) == (x * SpeedKeep) \div 1000

updateSpeed(x, sizeMult) == (x * SpeedKeep) \div 1000 - (SpeedLoss * sizeMult) \div 10000

\* The loop of updateLine's first branch: x is the major axis.
RECURSIVE LineX(_, _, _, _, _)
LineX(x, y, x2, ystep, color) ==
  IF x < x2
  THEN <<<<Round(x), Round(y + ystep), color>>>>
         \o LineX(x + HalfStep, y + ystep, x2, ystep, color)
  ELSE <<>>

\* The loop of updateLine's second branch: y is the major axis.
RECURSIVE LineY(_, _, _, _, _)
LineY(x, y, y2, xstep, color) ==
  IF y < y2
  THEN <<<<Round(x + xstep), Round(y), color>>>>
         \o LineY(x + xstep, y + HalfStep, y2, xstep, color)
  ELSE <<>>

\* The pixels updateLine(p1, p2) pushes on this.updated, in order.  The minor
\* step is a quotient of doubles in the code and of 1/Milli integers here.  In
\* the second branch y1 = y2 makes the step NaN and the loop runs zero times.
updateLine(p1, p2, color) ==
  IF Abs(p1[2] - p2[2]) < Abs(p1[1] - p2[1])
  THEN LET swap == p2[1] < p1[1]
           x1 == IF swap THEN p2[1] ELSE p1[1]
           y1 == IF swap THEN p2[2] ELSE p1[2]
           x2 == IF swap THEN p1[1] ELSE p2[1]
           y2 == IF swap THEN p1[2] ELSE p2[2]
           ystep == (HalfStep * (y2 - y1)) \div (x2 - x1)
       IN LineX(x1, y1, x2, ystep, color)
  ELSE LET swap == p2[2] < p1[2]
           x1 == IF swap THEN p2[1] ELSE p1[1]
           y1 == IF swap THEN p2[2] ELSE p1[2]
           x2 == IF swap THEN p1[1] ELSE p2[1]
           y2 == IF swap THEN p1[2] ELSE p2[2]
       IN IF y1 = y2
          THEN <<>>
          ELSE LineY(x1, y1, y2, (HalfStep * (x2 - x1)) \div (y2 - y1), color)

\* A faulty window test: >= 25 in place of > 25.
PastBranchWindowAtThreshold(s) == s.timeSinceBranch >= BranchThreshold

\* Whether this advance takes the branch of line 128.
PastBranchWindow(s) == s.timeSinceBranch > BranchThreshold

\* The value this advance assigns to branchRoot: the tip just moved to, and the
\* direction and acceleration before this advance turns.
BranchRootNow(s, newTip) == <<newTip[1], newTip[2], s.dir, s.angularAccel>>

\* Spiral.prototype.update
SpiralUpdate(s) ==
  IF s.stopped
  THEN s
  ELSE LET oldTip == s.tip
           newTip == <<s.tip[1] + Times(s.speed, Cos(s.dir)),
                       s.tip[2] + Times(s.speed, Sin(s.dir))>>
           late == PastBranchWindow(s)
           records == late /\ s.branchRoot = Null
       IN [s EXCEPT
             !.tip = newTip,
             !.updated = @ \o updateLine(oldTip, newTip, s.color),
             !.speed = updateSpeed(s.speed, s.sizeMult),
             !.branchRoot = IF records THEN BranchRootNow(s, newTip) ELSE @,
             !.dir = IF late
                     THEN DirAdd(s.dir, s.angularAccel)
                     ELSE DirAdd(s.dir, s.angularAccel \div 2),
             !.timeSinceBranch = IF late THEN @ ELSE @ + 1,
             !.advances = @ + 1,
             !.recordings = IF records THEN @ + 1 ELSE @]

---------------------------------------------------------------------------
(* SpiralControl (spirals.js). *)

\* A faulty drain: "if" in place of "while", so one pixel is popped per frame.
absorbUpdatesIf(cv, data, updated) ==
  IF Len(updated) > 0
  THEN LET u == updated[Len(updated)]
           hit == inCanvas(cv, u[1], u[2])
       IN [data |-> IF hit
                    THEN setPixel(cv, data, u[1], u[2], u[3][1], u[3][2], u[3][3])
                    ELSE data,
           updated |-> SubSeq(updated, 1, Len(updated) - 1),
           calls |-> IF hit THEN <<<<u[1], u[2]>>>> ELSE <<>>,
           popped |-> <<u>>]
  ELSE [data |-> data, updated |-> updated, calls |-> <<>>, popped |-> <<>>]

\* SpiralControl.prototype.absorbUpdates: pops until the list is empty.
\* calls and popped record what it did.  Each iteration's buffer is a value
\* before the next iteration starts, as in the loop.
RECURSIVE absorbUpdates(_, _, _)
absorbUpdates(cv, data, updated) ==
  IF Len(updated) > 0
  THEN LET u == updated[Len(updated)]
           rest == SubSeq(updated, 1, Len(updated) - 1)
           hit == inCanvas(cv, u[1], u[2])
           written == IF hit
                      THEN setPixel(cv, data, u[1], u[2], u[3][1], u[3][2], u[3][3])
                      ELSE data
           r == CHOOSE res \in {absorbUpdates(cv, d, rest) : d \in {written}} : TRUE
       IN [r EXCEPT !.calls = (IF hit THEN <<<<u[1], u[2]>>>> ELSE <<>>) \o @,
                    !.popped = <<u>> \o @]
  ELSE [data |-> data, updated |-> updated, calls |-> <<>>, popped |-> <<>>]

\* The four Spirals the constructor's setTimeout callbacks push, in the order
\* of their delays 0, 1000, 1500, 2000.
TimeoutSpiral(k, cv, size, color) ==
  LET cx == (cv.width * Milli) \div 2
      cy == (cv.height * Milli) \div 2
  IN CASE k = 1 -> Spiral(cx, cy, [half |-> 0, q |-> 0], 1, size, color)
       [] k = 2 -> Spiral(cx, cy - Milli, [half |-> 0, q |-> 0], -1, size, color)
       [] k = 3 -> Spiral(cx, cy, [half |-> 1, q |-> 0], 1, size, color)
       [] k = 4 -> Spiral(cx, cy - Milli, [half |-> 1, q |-> 0], -1, size, color)

\* A faulty branch: the recorded acceleration's sign kept instead of inverted.
BranchSameSign(s, size, color) ==
  Spiral(s.branchRoot[1], s.branchRoot[2], s.branchRoot[3],
         sign(s.branchRoot[4]), size, color)

\* The Spiral pushed for a branch of s.
Branch(s, size, color) ==
  Spiral(s.branchRoot[1], s.branchRoot[2], s.branchRoot[3],
         -1 * sign(s.branchRoot[4]), size, color)

\* One iteration of update()'s forEach callback, on the Spiral at index i.
\* r is what the random source gives this iteration: r.hit is
\* Math.random() < .001, r.size and r.color the new Spiral's randomSize() and
\* randomColor().
Visit(st, i, r) ==
  LET s0 == st.spirals[i]
      adv == ~s0.stopped
      s1 == IF adv THEN SpiralUpdate(s0) ELSE s0
      ab == IF adv
            THEN absorbUpdates(st.cv, st.data, s1.updated)
            ELSE [data |-> st.data, updated |-> s1.updated,
                  calls |-> <<>>, popped |-> <<>>]
      s2 == [s1 EXCEPT !.updated = ab.updated,
                       !.stopped = IF adv /\ s1.speed < 0 THEN TRUE ELSE @]
      spawn == s2.branchRoot # Null /\ r.hit
      s3 == IF spawn THEN [s2 EXCEPT !.branchRoot = Null] ELSE s2
      kept == [st.spirals EXCEPT ![i] = s3]
  IN [st EXCEPT
        !.spirals = IF spawn THEN Append(kept, Branch(s2, r.size, r.color)) ELSE kept,
        !.data = ab.data,
        !.shown = IF adv THEN ab.data ELSE @,
        !.calls = @ \o ab.calls,
        !.popped = @ \o ab.popped,
        !.spawned = IF spawn
                    THEN Append(@, [from |-> i, point |-> s2.branchRoot,
                                    at |-> Len(st.spirals) + 1])
                    ELSE @]

\* forEach visits the indices that existed when it was called: a Spiral pushed
\* during the loop is not visited.
RECURSIVE ForEach(_, _, _, _)
ForEach(st, i, n, rand) ==
  IF i > n THEN st ELSE ForEach(Visit(st, i, rand[i]), i + 1, n, rand)

\* SpiralControl.prototype.update
ControlUpdate(cv, data, sh, sps, rand) ==
  ForEach([cv |-> cv, spirals |-> sps, data |-> data, shown |-> sh,
           calls |-> <<>>, popped |-> <<>>, spawned |-> <<>>],
          1, Len(sps), rand)

---------------------------------------------------------------------------
(* The random source. *)

\* Any outcome at every call.
FreeRng == [mode |-> "free", spawn |-> {}, size |-> 0, color |-> <<0, 0, 0>>]

\* A fixed source: Math.random() < .001 exactly during the update() calls
\* numbered in spawn, and every new Spiral gets this size and color.
FixedRng(spawn, size, color) ==
  [mode |-> "fixed", spawn |-> spawn, size |-> size, color |-> color]

NoHit == [hit |-> FALSE, size |-> 0, color |-> <<0, 0, 0>>]

\* update() consults Math.random() for s iff s.branchRoot is set after s's
\* advance: it was set before, or this advance sets it.
Consulted(s) ==
  s.branchRoot # Null \/ (~s.stopped /\ PastBranchWindow(s))

HitCount(rand) == Cardinality({i \in DOMAIN rand : rand[i].hit})

\* What the source may give update() number f over the Spirals sps: one outcome
\* per Spiral, NoHit where Math.random() is not consulted, and no more hits
\* than MaxSpirals leaves room for.
RandomOutcomes(sps, f) ==
  LET n == Len(sps)
      room == MaxSpirals - n
      hits == IF rng.mode = "free"
              THEN {[hit |-> TRUE, size |-> d.size, color |-> d.color] : d \in Draws}
              ELSE {[hit |-> TRUE, size |-> rng.size, color |-> rng.color]}
      before(i) == Cardinality({j \in 1 .. (i - 1) : Consulted(sps[j])})
  IN {rand \in [1 .. n -> hits \cup {NoHit}] :
        /\ \A i \in 1 .. n : ~Consulted(sps[i]) => rand[i] = NoHit
        /\ HitCount(rand) <= room
        /\ rng.mode = "fixed" =>
             \A i \in 1 .. n :
               rand[i].hit <=> (f \in rng.spawn /\ Consulted(sps[i]) /\ before(i) < room)}

\* The size and color a constructor timeout's Spiral may get.
RandomDraws ==
  IF rng.mode = "free" THEN Draws ELSE {[size |-> rng.size, color |-> rng.color]}

---------------------------------------------------------------------------
(* The single-spiral controller (part_000). *)

\* new Spiral(startX, startY, startDir) of part_000.
SingleSpiral(startX, startY, startDir, color) ==
  [root |-> <<startX, startY>>,
   color |-> color,
   dir |-> startDir,
   angularAccel |-> SingleAccel,
   speed |-> SingleSpeed,
   tip |-> <<startX, startY>>,
   updated |-> <<>>]

\* A faulty anchor: the last row (height - 1) in place of height.
SingleControlSpiralLastRow(cv, color) ==
  SingleSpiral((cv.width * Milli) \div 2, (cv.height - 1) * Milli,
               [half |-> 0, q |-> 0], color)

\* The Spiral part_000's constructor creates: horizontal centre, bottom edge.
SingleControlSpiral(cv, color) ==
  SingleSpiral((cv.width * Milli) \div 2, cv.height * Milli,
               [half |-> 0, q |-> 0], color)

\* Spiral.prototype.update of part_000.  speed *= .999 as speed - speed/1000.
SingleSpiralUpdate(s) ==
  LET oldTip == s.tip
      newTip == <<s.tip[1] + Times(s.speed, Cos(s.dir)),
                  s.tip[2] + Times(s.speed, Sin(s.dir))>>
  IN [s EXCEPT
        !.tip = newTip,
        !.updated = @ \o updateLine(oldTip, newTip, s.color),
        !.speed = @ - @ \div 1000,
        !.dir = DirAdd(s.dir, s.angularAccel)]

---------------------------------------------------------------------------
(* Initial states. *)

\* The surface of the four-spiral runs.
SmallCanvas == [width |-> 8, height |-> 8]
\* The surface of the single-spiral runs.
SingleCanvas == [width |-> 100, height |-> 100]

\* The state new SpiralControl(newCanvas, fps) leaves, its timeouts pending.
\* this.mspf is assigned nowhere.
Constructed(cv, fpsArg) ==
  /\ canvas = cv
  /\ imageData = createImageData(cv)
  /\ shown = createImageData(cv)
  /\ timeouts = 0
  /\ refreshInterval = Undefined
  /\ intervals = {}
  /\ handles = 0
  /\ fps = IF fpsArg = <<>> THEN DefaultFps ELSE fpsArg[1]
  /\ mspf = Undefined
  /\ frames = 0
  /\ popped = <<>>
  /\ setPixelCalls = <<>>
  /\ spawned = <<>>

\* new SpiralControl of spirals.js: this.spirals = [].
Init ==
  /\ \E fpsArg \in FpsArgs : Constructed(SmallCanvas, fpsArg)
  /\ spirals = <<>>
  /\ spiral = Null
  /\ rng = FreeRng
  /\ seg = Null

---------------------------------------------------------------------------
(* Actions. *)

\* The next of the constructor's setTimeout callbacks runs (lines 20-27).
Timeout ==
  /\ timeouts < 4
  /\ Len(spirals) < MaxSpirals
  /\ \E d \in RandomDraws :
       spirals' = Append(spirals, TimeoutSpiral(timeouts + 1, canvas, d.size, d.color))
  /\ timeouts' = timeouts + 1
  /\ UNCHANGED <<canvas, imageData, shown, spiral, refreshInterval, intervals,
                 handles, fps, mspf, frames, rng, popped, setPixelCalls,
                 spawned, seg>>

\* start(), as the start button calls it: setInterval(update, this.mspf).
Start ==
  /\ handles < MaxStarts
  /\ handles' = handles + 1
  /\ intervals' = intervals \cup {[id |-> handles + 1, delay |-> mspf]}
  /\ refreshInterval' = [tag |-> "handle", id |-> handles + 1]
  /\ UNCHANGED <<canvas, imageData, shown, spirals, spiral, timeouts, fps, mspf,
                 frames, rng, popped, setPixelCalls, spawned, seg>>

\* stop(): clearInterval(this.refreshInterval); this.refreshInterval = null.
\* clearInterval of undefined, of null or of a cleared handle does nothing.
Stop ==
  /\ intervals' = {t \in intervals :
                     ~(refreshInterval.tag = "handle" /\ t.id = refreshInterval.id)}
  /\ refreshInterval' = [tag |-> "null", id |-> 0]
  /\ UNCHANGED <<canvas, imageData, shown, spirals, spiral, timeouts, handles,
                 fps, mspf, frames, rng, popped, setPixelCalls, spawned, seg>>

\* An active interval timer fires and runs update() (spirals.js), while fewer
\* than limit frames have run.  The constructor's 0 ms timeout was due before
\* start() could be called, so it ran before the first tick.
Frame(limit) ==
  /\ intervals # {}
  /\ timeouts > 0
  /\ frames < limit
  /\ \E rand \in RandomOutcomes(spirals, frames + 1) :
       \E st \in {ControlUpdate(canvas, imageData, shown, spirals, rand)} :
          /\ spirals' = st.spirals
          /\ imageData' = st.data
          /\ shown' = st.shown
          /\ popped' = st.popped
          /\ setPixelCalls' = st.calls
          /\ spawned' = st.spawned
  /\ frames' = frames + 1
  /\ UNCHANGED <<canvas, spiral, timeouts, refreshInterval, intervals, handles,
                 fps, mspf, rng, seg>>

Tick == Frame(MaxFrames)

Next == Timeout \/ Start \/ Stop \/ Tick

Spec == Init /\ [][Next]_vars

---------------------------------------------------------------------------
(* The animation running: start() pressed once, any random outcomes. *)

FirstStart == handles = 0 /\ Start

TickRun == Frame(RunFrames)

NextRun == Timeout \/ FirstStart \/ TickRun

InitRun ==
  /\ Constructed(SmallCanvas, <<>>)
  /\ spirals = <<>>
  /\ spiral = Null
  /\ rng = FreeRng
  /\ seg = Null

SpecRun == InitRun /\ [][NextRun]_vars

---------------------------------------------------------------------------
(* Whole lifetimes: the constructor's timeouts run before the animation    *)
(* is started, start() is pressed once, and the random source is one of a  *)
(* few fixed sources.                                                      *)

\* The update() calls during which a fixed source gives Math.random() < .001:
\* never, always, once in mid-life, once after the first Spiral has stopped.
LifeSchedules == {{}, 1 .. (LifeFrames + 1), {100}, {380}}

LifeSources == {FixedRng(S, d.size, d.color) : S \in LifeSchedules, d \in Draws}

InitLife ==
  /\ Constructed(SmallCanvas, <<>>)
  /\ spirals = <<>>
  /\ spiral = Null
  /\ rng \in LifeSources
  /\ seg = Null

TimeoutLife == frames = 0 /\ intervals = {} /\ Timeout

TickLife == Frame(LifeFrames)

NextLife == TimeoutLife \/ FirstStart \/ TickLife

SpecLife == InitLife /\ [][NextLife]_vars

---------------------------------------------------------------------------
(* The single-spiral controller running (part_000). *)

\* SpiralControl.prototype.update of part_000.
SingleControlUpdate(cv, data, sp) ==
  LET s1 == SingleSpiralUpdate(sp)
      ab == absorbUpdates(cv, data, s1.updated)
  IN [spiral |-> [s1 EXCEPT !.updated = ab.updated],
      data |-> ab.data, shown |-> ab.data,
      calls |-> ab.calls, popped |-> ab.popped]

\* new SpiralControl(canvas) of part_000 over the 100 x 100 surface.
InitSingle ==
  /\ Constructed(SingleCanvas, <<>>)
  /\ spirals = <<>>
  /\ \E d \in Draws : spiral = SingleControlSpiral(SingleCanvas, d.color)
  /\ rng = FreeRng
  /\ seg = Null

\* An active interval timer fires and runs update() (part_000).
SingleTick ==
  /\ intervals # {}
  /\ frames < SingleFrames
  /\ \E st \in {SingleControlUpdate(canvas, imageData, spiral)} :
       /\ spiral' = st.spiral
       /\ imageData' = st.data
       /\ shown' = st.shown
       /\ popped' = st.popped
       /\ setPixelCalls' = st.calls
  /\ frames' = frames + 1
  /\ UNCHANGED <<canvas, spirals, timeouts, refreshInterval, intervals, handles,
                 fps, mspf, rng, spawned, seg>>

NextSingle == Start \/ Stop \/ SingleTick

SpecSingle == InitSingle /\ [][NextSingle]_vars

---------------------------------------------------------------------------
(* updateLine on its own, over every pair of whole-pixel endpoints. *)

Points == {<<x * Milli, y * Milli>> : x \in 0 .. MaxCoord, y \in 0 .. MaxCoord}

InitLine ==
  /\ Constructed(SmallCanvas, <<>>)
  /\ spirals = <<>>
  /\ spiral = Null
  /\ rng = FreeRng
  /\ \E p1 \in Points, p2 \in Points, d \in Draws :
       seg = [p1 |-> p1, p2 |-> p2, color |-> d.color, pushed |-> <<>>, done |-> FALSE]

\* updateLine(p1, p2) is called once.
UpdateLineCall ==
  /\ ~seg.done
  /\ seg' = [seg EXCEPT !.pushed = @ \o updateLine(seg.p1, seg.p2, seg.color),
                        !.done = TRUE]
  /\ UNCHANGED <<canvas, imageData, shown, spirals, spiral, timeouts,
                 refreshInterval, intervals, handles, fps, mspf, frames, rng,
                 popped, setPixelCalls, spawned>>

NextLine == UpdateLineCall

SpecLine == InitLine /\ [][NextLine]_vars

---------------------------------------------------------------------------
(* Properties. *)

Min(a, b) == IF a < b THEN a ELSE b

\* 0 <= x < width and 0 <= y < height.
InBounds(x, y) == 0 <= x /\ x < canvas.width /\ 0 <= y /\ y < canvas.height

\* The buffer offset of pixel (x, y).
PixelOffset(x, y) == (y * canvas.width + x) * 4

\* Whether the buffer holds r, g, b, a at pixel (x, y).
PixelIs(x, y, r, g, b, a) ==
  LET o == PixelOffset(x, y)
  IN /\ 0 <= o
     /\ o + 3 < imageData.length
     /\ Byte(imageData, o) = r
     /\ Byte(imageData, o + 1) = g
     /\ Byte(imageData, o + 2) = b
     /\ Byte(imageData, o + 3) = a

\* C1: a Spiral's branchRoot goes from unset to set at most once in the
\* Spiral's lifetime: once a branch was spawned from it and branchRoot
\* cleared, no later advance assigns branchRoot again.
C1_BranchRootSetAtMostOnce ==
  \A i \in 1 .. Len(spirals) : spirals[i].recordings <= 1

\* C2: at the end of every update() the updated list of every Spiral in the
\* collection (active, stopped, or pushed during that frame) is empty.
C2_UpdatedEmptyAfterFrame ==
  \A i \in 1 .. Len(spirals) : Len(spirals[i].updated) = 0

\* A frame has drained pixels of an active Spiral while another Spiral is
\* stopped and a branch exists.
C2_Witness ==
  /\ frames > 0
  /\ Len(popped) > 0
  /\ Len(spirals) > timeouts
  /\ \E i \in 1 .. Len(spirals) : spirals[i].stopped
  /\ \E i \in 1 .. Len(spirals) : ~spirals[i].stopped /\ spirals[i].advances > 0

\* The popped pixels that lie inside the surface, as (x, y), in pop order.
PoppedInside(seq) ==
  LET inside == SelectSeq(seq, LAMBDA u : InBounds(u[1], u[2]))
  IN [k \in 1 .. Len(inside) |-> <<inside[k][1], inside[k][2]>>]

\* C3: setPixel is only ever invoked with 0 <= x < width and 0 <= y < height:
\* of the pixels a frame drains, exactly those inside the surface reach
\* setPixel, and every byte of the buffer the frame changes is one of the four
\* bytes at offset (y * width + x) * 4 of such a pixel.
C3_SetPixelOnlyInBounds ==
  [][/\ \A k \in 1 .. Len(setPixelCalls') :
          InBounds(setPixelCalls'[k][1], setPixelCalls'[k][2])
     /\ setPixelCalls' = PoppedInside(popped')
     /\ imageData'.length = imageData.length
     /\ \A idx \in 0 .. (imageData.length - 1) :
          Byte(imageData', idx) # Byte(imageData, idx) =>
            \E k \in 1 .. Len(setPixelCalls') :
              LET o == PixelOffset(setPixelCalls'[k][1], setPixelCalls'[k][2])
              IN idx \in o .. (o + 3)]_vars

\* A frame has drained pixels inside and pixels outside the surface.
C3_Witness ==
  /\ \E k \in 1 .. Len(popped) : InBounds(popped[k][1], popped[k][2])
  /\ \E k \in 1 .. Len(popped) : ~InBounds(popped[k][1], popped[k][2])

\* One application of speed * 0.993 - 0.0016 * sizeMult, in 1/Micro.
Decay(x, z) == (x * 993) \div 1000 - (16 * z) \div 10000

\* A Spiral starts at 3 * sizeMult and is stopped iff its speed is negative,
\* which the recurrence first makes it after 377 applications, whatever the
\* sizeMult.
C4_StoppedIffNegative ==
  \A i \in 1 .. Len(spirals) :
    LET s == spirals[i]
    IN /\ s.advances = 0 => s.speed = 3 * s.sizeMult
       /\ s.advances = 1 => s.speed = Decay(3 * s.sizeMult, s.sizeMult)
       /\ s.stopped <=> s.speed < 0
       /\ s.stopped => s.advances = 377

\* Each frame advances every Spiral that is not stopped, once, and each
\* advance applies speed * 0.993 - 0.0016 * sizeMult once; a stopped Spiral is
\* not advanced again.
C4_SpeedStep ==
  \A i \in 1 .. Len(spirals) :
    LET s == spirals[i]
        t == spirals'[i]
    IN /\ t.advances \in {s.advances, s.advances + 1}
       /\ t.advances = s.advances + 1 =>
            /\ ~s.stopped
            /\ s.speed >= 0
            /\ t.speed = Decay(s.speed, s.sizeMult)
       /\ t.advances = s.advances =>
            /\ t.speed = s.speed
            /\ t.tip = s.tip
            /\ t.stopped = s.stopped
       /\ (frames' = frames + 1 /\ ~s.stopped) => t.advances = s.advances + 1
       /\ s.stopped => t.advances = s.advances /\ t.stopped

\* C4: a Spiral's speed after N advances is N applications of
\* speed * 0.993 - 0.0016 * sizeMult to 3 * sizeMult, and the Spiral is stopped
\* in exactly the frame of the first advance whose resulting speed is
\* negative: not in an earlier frame, and it is not advanced in a later one.
C4_SpeedDecayAndStop == []C4_StoppedIffNegative /\ [][C4_SpeedStep]_vars

\* A Spiral has been advanced until it stopped.
C4_Witness ==
  \E i \in 1 .. Len(spirals) :
    spirals[i].stopped /\ spirals[i].advances > 0 /\ spirals[i].speed < 0

\* The counter, the direction and the recording of branchRoot after the
\* Spiral's advances, when the half acceleration is applied on the first
\* window advances and branchRoot first recorded on advance number first.
BranchWindowIs(s, window, first) ==
  LET n == s.advances
      h == Min(n, window)
  IN /\ s.timeSinceBranch = h
     /\ s.dir.half = s.startDir.half
     /\ s.dir.q = s.startDir.q + (s.angularAccel \div 2) * h + s.angularAccel * (n - h)
     /\ s.recordings > 0 <=> n >= first
     /\ (n = first /\ s.branchRoot # Null) =>
          s.branchRoot = <<s.tip[1], s.tip[2],
                           [s.dir EXCEPT !.q = @ - s.angularAccel],
                           s.angularAccel>>

\* C5, as claimed: half the angular acceleration and the increment on exactly
\* the advances where the counter is below 25 (the first 25), the full
\* acceleration from the next advance on, branchRoot first recorded on the
\* first advance at which the counter has reached 25.
C5_WindowOf25 ==
  \A i \in 1 .. Len(spirals) : BranchWindowIs(spirals[i], 25, 26)

\* C5, amended: half the angular acceleration and the increment on exactly
\* the advances where the counter is at most 25 (the first 26), the full
\* acceleration from the 27th advance on, branchRoot first recorded on the
\* 27th advance (the first at which the counter exceeds 25), as the tip after
\* that advance's move and the direction and acceleration before its turn.
C5_WindowOf26 ==
  \A i \in 1 .. Len(spirals) : BranchWindowIs(spirals[i], 26, 27)

\* A Spiral has just recorded its first branchRoot, on its 27th advance.
C5_Witness ==
  \E i \in 1 .. Len(spirals) :
    /\ spirals[i].advances = 27
    /\ spirals[i].recordings = 1
    /\ spirals[i].branchRoot # Null

\* The segment's major axis, as updateLine's caller sees it: x when the x
\* extent is the larger, else y.
MajorAxis == IF Abs(seg.p1[2] - seg.p2[2]) < Abs(seg.p1[1] - seg.p2[1]) THEN 1 ELSE 2

\* The segment's smaller and larger major-axis coordinates, in pixels.
MajorLow == Min(seg.p1[MajorAxis], seg.p2[MajorAxis]) \div 1000
MajorHigh == (seg.p1[MajorAxis] + seg.p2[MajorAxis]) \div 1000 - MajorLow

\* The segment is the horizontal one from (0, 0) to (10, 0).
ZeroToTen == seg.p1 = <<0, 0>> /\ seg.p2 = <<10000, 0>>

\* C6, as claimed: the segment from (0, 0) to (10, 0) appends exactly 20
\* pixels, all with y = 0, whose x are the samples 0, 0.5, ..., 9.5 rounded to
\* the nearest integer, none with x = 10; and for major-axis coordinates
\* a < b no emitted pixel has major-axis coordinate b.
C6_EndNeverEmitted ==
  seg.done =>
    /\ ZeroToTen =>
         /\ Len(seg.pushed) = 20
         /\ \A k \in 1 .. Len(seg.pushed) :
              /\ seg.pushed[k][2] = 0
              /\ seg.pushed[k][1] = k \div 2
              /\ seg.pushed[k][1] # 10
    /\ MajorLow < MajorHigh =>
         \A k \in 1 .. Len(seg.pushed) : seg.pushed[k][MajorAxis] # MajorHigh

\* C6, amended: the segment from (0, 0) to (10, 0) appends exactly 20 pixels,
\* all with y = 0, whose x are the samples 0, 0.5, ..., 9.5 rounded to the
\* nearest integer, halves up: 0, 1, 1, 2, ..., 9, 10, so the last pixel has
\* x = 10; and for major-axis coordinates a < b the 2 * (b - a) emitted pixels
\* have major-axis coordinates in a .. b, the last of them b.
C6_EndEmittedByRounding ==
  seg.done =>
    /\ ZeroToTen =>
         /\ Len(seg.pushed) = 20
         /\ \A k \in 1 .. Len(seg.pushed) :
              /\ seg.pushed[k][2] = 0
              /\ seg.pushed[k][1] = k \div 2
         /\ seg.pushed[20][1] = 10
    /\ MajorLow < MajorHigh =>
         /\ Len(seg.pushed) = 2 * (MajorHigh - MajorLow)
         /\ \A k \in 1 .. Len(seg.pushed) :
              seg.pushed[k][MajorAxis] \in MajorLow .. MajorHigh
         /\ \E k \in 1 .. Len(seg.pushed) : seg.pushed[k][MajorAxis] = MajorHigh

\* updateLine has rasterized the segment from (0, 0) to (10, 0).
C6_Witness == seg.done /\ ZeroToTen /\ Len(seg.pushed) = 20

\* C7, as claimed: after exactly one update() of the single-spiral controller
\* over the 100 x 100 surface, exactly the pixels on the segment from
\* (50, 100) to (55, 100) hold the Spiral's color with alpha 255, and every
\* other pixel is zero.
C7_FirstSegmentDrawn ==
  frames = 1 =>
    \A x \in 0 .. 99, y \in 0 .. 100 :
      IF y = 100 /\ x \in 50 .. 55
      THEN PixelIs(x, y, spiral.color[1], spiral.color[2], spiral.color[3], 255)
      ELSE y < 100 => PixelIs(x, y, 0, 0, 0, 0)

\* C7, amended: after exactly one update() of the single-spiral controller
\* over the 100 x 100 surface the buffer is still all zero: the ten pixels of
\* the segment from (50, 100) to (55, 100) have y = 100 = height, fail the
\* bounds test and are dropped without a setPixel call; the Spiral's updated
\* list is empty and its tip is (55, 100).
C7_FirstSegmentDropped ==
  frames = 1 =>
    /\ imageData.length = 100 * 100 * 4
    /\ \A idx \in 0 .. (imageData.length - 1) : Byte(imageData, idx) = 0
    /\ Len(setPixelCalls) = 0
    /\ Len(popped) = 10
    /\ \A k \in 1 .. Len(popped) :
         /\ popped[k][2] = 100
         /\ popped[k][1] \in 50 .. 55
         /\ popped[k][3] = spiral.color
    /\ Len(spiral.updated) = 0
    /\ spiral.tip = <<55000, 100000>>

\* The single-spiral controller has run exactly one update().
C7_Witness == frames = 1 /\ Len(popped) = 10 /\ canvas = SingleCanvas

\* C8: once stop() has returned (this.refreshInterval is null) no periodic
\* schedule is active until start() is called again.
C8_StopLeavesNoSchedule ==
  refreshInterval.tag = "null" => intervals = {}

\* C9: the interval start() hands to the scheduler is a defined number of
\* milliseconds, 1000 / framesPerSecond.
C9_IntervalFromFps ==
  \A t \in intervals : t.delay.tag = "number" /\ t.delay.ms * fps = 1000

\* What one step does to the collection: nothing is removed or reordered, and
\* a frame appends exactly one Spiral per branch it spawns, in order, each
\* with root and tip at the recorded position, the recorded direction, an
\* acceleration of the opposite sign, not stopped, nothing pending; the
\* originating Spiral's branchRoot is cleared and it spawns once in the frame.
C10_SpawnStep ==
  LET n == Len(spirals)
  IN /\ Len(spirals') >= n
     /\ \A i \in 1 .. n :
          /\ spirals'[i].root = spirals[i].root
          /\ spirals'[i].color = spirals[i].color
          /\ spirals'[i].sizeMult = spirals[i].sizeMult
          /\ spirals'[i].startDir = spirals[i].startDir
     /\ frames' = frames + 1 =>
          /\ Len(spirals') = n + Len(spawned')
          /\ \A k \in 1 .. Len(spawned') :
               LET e == spawned'[k]
                   c == spirals'[n + k]
               IN /\ e.at = n + k
                  /\ e.from \in 1 .. n
                  /\ spirals[e.from].branchRoot # Null =>
                       e.point = spirals[e.from].branchRoot
                  /\ spirals'[e.from].branchRoot = Null
                  /\ \A j \in 1 .. Len(spawned') : j # k => spawned'[j].from # e.from
                  /\ c.root = <<e.point[1], e.point[2]>>
                  /\ c.tip = <<e.point[1], e.point[2]>>
                  /\ c.dir = e.point[3]
                  /\ c.angularAccel * e.point[4] < 0
                  /\ Abs(c.angularAccel) = Abs(e.point[4])
                  /\ ~c.stopped
                  /\ Len(c.updated) = 0
                  /\ c.advances = 0

\* C10: whenever update() spawns a branch from a Spiral carrying a recorded
\* branchRoot (stopped or not), exactly one new Spiral is appended at the end
\* of the collection, with root and tip at the recorded position, heading the
\* recorded direction, angular acceleration of the opposite sign, not stopped
\* and with nothing pending; the originating Spiral's branchRoot is cleared in
\* the same step, and no existing Spiral is removed or reordered.
C10_BranchSpawn == [][C10_SpawnStep]_vars

\* A frame has spawned a branch from a stopped Spiral.
C10_Witness ==
  /\ Len(spawned) > 0
  /\ spirals[spawned[1].from].stopped
  /\ spirals[spawned[1].from].branchRoot = Null

=============================================================================
